---------------------------- MODULE Spec2Model ----------------------------
(***************************************************************************)
(* Model of itoa-example (src/src/main.rs): the SimpleDisplay converter,   *)
(* the benchmark harness (main, bench_for_digits) and stats.               *)
(*                                                                         *)
(* u64 values are kept at their full width as four 16-bit limbs (least     *)
(* significant first), so that % 10, / 10 and * 10 are computed by limb    *)
(* arithmetic and overflow past 2^64 is visible.  Bytes are their ASCII    *)
(* codes; text is a sequence of bytes.                                     *)
(***************************************************************************)
EXTENDS Integers, Sequences, FiniteSets, TLC

VARIABLES
    \* ---- SimpleDisplay::fmt (one call)
    self_v,        \* self.0, the value being formatted
    fopt,          \* the Formatter's options (width, fill, align, flags)
    n,             \* let mut n
    buf,           \* let mut buf: [u8; 20]
    cur,           \* let mut cur
    written,       \* history: the indices of buf stored by line 116
    iters,         \* history: completed evaluations of the loop block
    fpc,           \* position inside fmt
    out,           \* what the Formatter's sink received
    \* ---- main and bench_for_digits
    pc,            \* position of the process
    overflow_checks, \* the build: whether integer overflow panics or wraps
    seed_arg,      \* matches.value_of("seed")
    rng,           \* whether and how the generator was made
    stdout,        \* the lines printed with println!
    calls,         \* history: calls of bench_for_digits so far
    digits,        \* the loop variable of main, the argument of bench_for_digits
    value_min,     \* let value_min
    iter,          \* completed iterations of for _ in 0..BENCH_ITER
    values,        \* let mut values
    w_simple,      \* let mut w_simple
    w_std,         \* let mut w_std
    simple_times,  \* let mut simple_times
    std_times,     \* let mut std_times
    simple_stats,  \* let simple_stats
    std_stats      \* let std_stats

fmtVars == <<self_v, fopt, n, buf, cur, written, iters, fpc, out>>

mainVars == <<overflow_checks, seed_arg, rng, stdout, calls, digits>>

benchVars ==
    <<value_min, iter, values, w_simple, w_std, simple_times, std_times,
      simple_stats, std_stats>>

vars == <<fmtVars, pc, mainVars, benchVars>>

----------------------------------------------------------------------------
(* u64 arithmetic on limbs *)

LimbBase == 2 ^ 16

U64(l0, l1, l2, l3) == <<l0, l1, l2, l3>>
Zero == U64(0, 0, 0, 0)
U64Max == U64(LimbBase - 1, LimbBase - 1, LimbBase - 1, LimbBase - 1)
FromSmall(k) == U64(k % LimbBase, k \div LimbBase, 0, 0)

\* x / k and x % k for a small k (k * 2^16 fits TLC's 32-bit integers)
DivSmall(x, k) ==
    LET t3 == x[4]
        t2 == (t3 % k) * LimbBase + x[3]
        t1 == (t2 % k) * LimbBase + x[2]
        t0 == (t1 % k) * LimbBase + x[1]
    IN  [q |-> U64(t0 \div k, t1 \div k, t2 \div k, t3 \div k), r |-> t0 % k]

\* x * k + a for small k, a: the wrapped result and whether it overflowed 2^64
MulAddSmall(x, k, a) ==
    LET p0 == x[1] * k + a
        p1 == x[2] * k + p0 \div LimbBase
        p2 == x[3] * k + p1 \div LimbBase
        p3 == x[4] * k + p2 \div LimbBase
    IN  [v |-> U64(p0 % LimbBase, p1 % LimbBase, p2 % LimbBase, p3 % LimbBase),
         overflow |-> p3 \div LimbBase # 0]

\* x - a for a small a: the wrapped result and whether it went below 0
SubSmall(x, a) ==
    LET d0 == x[1] - a
        b0 == IF d0 < 0 THEN 1 ELSE 0
        d1 == x[2] - b0
        b1 == IF d1 < 0 THEN 1 ELSE 0
        d2 == x[3] - b1
        b2 == IF d2 < 0 THEN 1 ELSE 0
        d3 == x[4] - b2
    IN  [v |-> U64(d0 % LimbBase, d1 % LimbBase, d2 % LimbBase, d3 % LimbBase),
         overflow |-> d3 < 0]

Less(x, y) ==
    \/ x[4] < y[4]
    \/ x[4] = y[4] /\ x[3] < y[3]
    \/ x[4] = y[4] /\ x[3] = y[3] /\ x[2] < y[2]
    \/ x[4] = y[4] /\ x[3] = y[3] /\ x[2] = y[2] /\ x[1] < y[1]

\* a value below 2^31 as a plain integer
Small(x) == x[2] * LimbBase + x[1]

\* 10u64.pow(e) with wrapping multiplication, and whether a product overflowed
\* (the recursive value is read first, in the test, to keep the evaluation flat)
RECURSIVE Pow10(_)
Pow10(e) ==
    IF e = 0 THEN [v |-> FromSmall(1), overflow |-> FALSE]
    ELSE LET p == Pow10(e - 1)
         IN  IF p.overflow
             THEN [v |-> MulAddSmall(p.v, 10, 0).v, overflow |-> TRUE]
             ELSE MulAddSmall(p.v, 10, 0)

----------------------------------------------------------------------------
(* bytes *)

Ch0 == 48          \* b'0'
IsDigitByte(b) == b >= Ch0 /\ b <= Ch0 + 9

----------------------------------------------------------------------------
(* SimpleDisplay::fmt *)

\* *b"18446744073709551615"
BufInit ==
    [i \in 1..20 |->
        Ch0 + <<1, 8, 4, 4, 6, 7, 4, 4, 0, 7, 3, 7, 0, 9, 5, 5, 1, 6, 1, 5>>[i]]

\* a variant of BufLen one short of the buffer
BufLenShort == Len(BufInit) - 1

BufLen == Len(BufInit)

\* a variant of DigitByte that stores the digit's value, not its character
DigitByteNoOffset(m) == m % 256

\* the byte stored at line 116: (m as u8) + b'0'
DigitByte(m) == (m % 256) + Ch0

\* the loop's condition, evaluated after the block
LoopCond(q) == q # Zero

\* a variant of LoopBody whose value is the test of n before the division
LoopBodyTestBefore(s) ==
    LET c   == s.cur - 1
        dm  == DivSmall(s.n, 10)
    IN  IF c < 0
        THEN [n |-> s.n, cur |-> c, buf |-> s.buf, cont |-> FALSE, panic |-> TRUE]
        ELSE [n     |-> dm.q,
              cur   |-> c,
              buf   |-> [s.buf EXCEPT ![c + 1] = DigitByte(dm.r)],
              cont  |-> s.n # Zero,
              panic |-> FALSE]

\* One evaluation of the block of the while (lines 113-118) on the locals
\* s = [n, buf, cur]: the new locals and the block's value (n > 0).
\* buf[cur] of the source is buf[cur + 1] here (sequences start at 1).
\* With cur = 0 the block panics before it stores anything: cur -= 1
\* overflows (a panic with overflow checks, else a wrap to 2^64 - 1 and the
\* bounds check of buf[cur] panics).
LoopBody(s) ==
    LET c   == s.cur - 1
        dm  == DivSmall(s.n, 10)
    IN  IF c < 0
        THEN [n |-> s.n, cur |-> c, buf |-> s.buf, cont |-> FALSE, panic |-> TRUE]
        ELSE [n     |-> dm.q,
              cur   |-> c,
              buf   |-> [s.buf EXCEPT ![c + 1] = DigitByte(dm.r)],
              cont  |-> LoopCond(dm.q),
              panic |-> FALSE]

\* &buf[cur..]
BufSlice(b, c) == SubSeq(b, c + 1, Len(b))

\* the digit run of SimpleDisplay(v): the loop run to its end from the locals
\* of lines 106-109, then the slice of line 122
RECURSIVE RunLoop(_)
RunLoop(s) ==
    LET t == LoopBody(s)
    IN  IF t.cont THEN RunLoop(t) ELSE t

FmtLocals(v) == [n |-> v, buf |-> BufInit, cur |-> BufLen, cont |-> TRUE, panic |-> FALSE]

SimpleDigits(v) ==
    LET t == RunLoop(FmtLocals(v))
    IN  BufSlice(t.buf, t.cur)

----------------------------------------------------------------------------
(* core::fmt as the two Display impls use it *)

Fill(k, b) == [i \in 1..k |-> b]

\* Formatter::padding(padding, default): the fill written before and after
Padding(f, padding, default) ==
    LET align == IF f.align = "Unknown" THEN default ELSE f.align
    IN  CASE align = "Left"   -> [pre |-> 0, post |-> padding]
          [] align = "Right"  -> [pre |-> padding, post |-> 0]
          [] align = "Center" -> [pre |-> padding \div 2, post |-> (padding + 1) \div 2]

\* Formatter::pad_integral(is_nonnegative, prefix, buf): the bytes the sink gets
\* (text is the source's buf)
PadIntegral(f, is_nonnegative, prefix, text) ==
    LET sign == IF ~is_nonnegative THEN <<45>>
                ELSE IF f.sign_plus THEN <<43>> ELSE <<>>
        pre   == IF f.alternate THEN prefix ELSE <<>>
        width == Len(text) + Len(sign) + Len(pre)
    IN  IF f.width = -1 \/ width >= f.width
        THEN sign \o pre \o text
        ELSE IF f.zero_pad
        THEN LET p == Padding([f EXCEPT !.align = "Right"], f.width - width, "Right")
             IN  sign \o pre \o Fill(p.pre, Ch0) \o text \o Fill(p.post, Ch0)
        ELSE LET p == Padding(f, f.width - width, "Right")
             IN  Fill(p.pre, f.fill) \o sign \o pre \o text \o Fill(p.post, f.fill)

\* DEC_DIGITS_LUT[2k .. 2k+2]: the two digits of k < 100
Lut2(k) == <<Ch0 + (k \div 10), Ch0 + (k % 10)>>

\* <u64 as Display>::fmt, the baseline: four digits at a time while
\* n >= 10000, then two, then one or two
RECURSIVE StdHigh(_, _)
StdHigh(x, acc) ==
    IF Less(x, FromSmall(10000)) THEN [n |-> Small(x), acc |-> acc]
    ELSE LET dm == DivSmall(x, 10000)
         IN  StdHigh(dm.q, Lut2(dm.r \div 100) \o Lut2(dm.r % 100) \o acc)

StdDigits(v) ==
    LET h  == StdHigh(v, <<>>)
        a2 == IF h.n >= 100 THEN Lut2(h.n % 100) \o h.acc ELSE h.acc
        n2 == IF h.n >= 100 THEN h.n \div 100 ELSE h.n
    IN  IF n2 < 10 THEN <<Ch0 + n2>> \o a2 ELSE Lut2(n2) \o a2

\* format of SimpleDisplay(v) and of v under the Formatter options f
SimpleDisplay(f, v) == PadIntegral(f, TRUE, <<>>, SimpleDigits(v))
StdDisplay(f, v) == PadIntegral(f, TRUE, <<>>, StdDigits(v))

\* the number a run of decimal digits denotes, and whether it exceeds u64
RECURSIVE DecimalValue(_)
DecimalValue(run) ==
    IF run = <<>> THEN [v |-> Zero, overflow |-> FALSE]
    ELSE LET h == DecimalValue(SubSeq(run, 1, Len(run) - 1))
             d == run[Len(run)] - Ch0
         IN  IF h.overflow
             THEN [v |-> MulAddSmall(h.v, 10, d).v, overflow |-> TRUE]
             ELSE MulAddSmall(h.v, 10, d)

----------------------------------------------------------------------------
(* One call of SimpleDisplay::fmt, a step per evaluation of the loop block *)

\* how far around each boundary value the inputs are drawn
Spread == 2

Near(x) ==
    {MulAddSmall(x, 1, j).v : j \in 0..Spread} \cup {SubSmall(x, j).v : j \in 0..Spread}

\* inputs: around 0, 2^64 - 1 and every power of ten, multiples with mixed
\* digits, and values with a single limb set
TestValues ==
    UNION {Near(Pow10(k).v) : k \in 0..19}
    \cup Near(Zero) \cup Near(U64Max)
    \cup {MulAddSmall(Pow10(k).v, 7, 3).v : k \in 0..18}
    \cup {U64(0, 1, 0, 0), U64(0, 0, 1, 0), U64(0, 0, 0, 1), U64(0, 0, 0, 32768),
          U64(12345, 0, 0, 0), U64(9999, 0, 0, 0), U64(10000, 0, 0, 0)}

NoWidth == -1

FormatSpec(width, fill, align, sign_plus, alternate, zero_pad) ==
    [width |-> width, fill |-> fill, align |-> align, sign_plus |-> sign_plus,
     alternate |-> alternate, zero_pad |-> zero_pad]

\* "{}" as the harness and the test use it
Plain == FormatSpec(NoWidth, 32, "Unknown", FALSE, FALSE, FALSE)

\* "{}", "{:3}", "{:<3}", "{:*^4}", "{:03}", "{:+}", "{:+05}", "{:#}", "{:>22}"
FormatSpecs ==
    {Plain,
     FormatSpec(3, 32, "Unknown", FALSE, FALSE, FALSE),
     FormatSpec(3, 32, "Left", FALSE, FALSE, FALSE),
     FormatSpec(4, 42, "Center", FALSE, FALSE, FALSE),
     FormatSpec(3, 32, "Unknown", FALSE, FALSE, TRUE),
     FormatSpec(NoWidth, 32, "Unknown", TRUE, FALSE, FALSE),
     FormatSpec(5, 32, "Unknown", TRUE, FALSE, TRUE),
     FormatSpec(NoWidth, 32, "Unknown", FALSE, TRUE, FALSE),
     FormatSpec(22, 32, "Right", FALSE, FALSE, FALSE)}

\* the harness's variables while a call of fmt is studied alone, and fmt's
\* while the harness is
None == [some |-> FALSE, str |-> <<>>]
Some(str) == [some |-> TRUE, str |-> str]
NoStats == [min |-> 0, max |-> 0, avg |-> [num |-> 0, den |-> 1]]

HarnessIdle ==
    /\ pc = "idle"
    /\ overflow_checks = FALSE
    /\ seed_arg = None
    /\ rng = "none"
    /\ stdout = <<>>
    /\ calls = 0
    /\ digits = 0
    /\ value_min = Zero
    /\ iter = 0
    /\ values = <<>>
    /\ w_simple = <<>>
    /\ w_std = <<>>
    /\ simple_times = <<>>
    /\ std_times = <<>>
    /\ simple_stats = NoStats
    /\ std_stats = NoStats

FmtIdle ==
    /\ self_v = Zero
    /\ fopt = Plain
    /\ n = Zero
    /\ buf = BufInit
    /\ cur = 0
    /\ written = {}
    /\ iters = 0
    /\ fpc = "idle"
    /\ out = <<>>

InitFmt ==
    /\ self_v \in TestValues
    /\ fopt \in FormatSpecs
    /\ n = Zero
    /\ buf = BufInit
    /\ cur = 0
    /\ written = {}
    /\ iters = 0
    /\ fpc = "call"
    /\ out = <<>>
    /\ HarnessIdle

\* lines 106-109
FmtEnter ==
    /\ fpc = "call"
    /\ n' = self_v
    /\ buf' = BufInit
    /\ cur' = BufLen
    /\ fpc' = "loop"
    /\ UNCHANGED <<self_v, fopt, written, iters, out, pc, mainVars, benchVars>>

\* lines 111-119, one evaluation of the block and of its value
FmtLoop ==
    /\ fpc = "loop"
    /\ LET t == LoopBody([n |-> n, buf |-> buf, cur |-> cur])
       IN  /\ n' = t.n
           /\ buf' = t.buf
           /\ cur' = t.cur
           /\ written' = IF t.panic THEN written ELSE written \cup {t.cur}
           /\ iters' = IF t.panic THEN iters ELSE iters + 1
           /\ fpc' = IF t.panic THEN "panic" ELSE IF t.cont THEN "loop" ELSE "emit"
    /\ UNCHANGED <<self_v, fopt, out, pc, mainVars, benchVars>>

\* a variant of FmtEmit that passes is_nonnegative = false
FmtEmitNegative ==
    /\ fpc = "emit"
    /\ out' = PadIntegral(fopt, FALSE, <<>>, BufSlice(buf, cur))
    /\ fpc' = "done"
    /\ UNCHANGED <<self_v, fopt, n, buf, cur, written, iters, pc, mainVars, benchVars>>

\* lines 121-124
FmtEmit ==
    /\ fpc = "emit"
    /\ out' = PadIntegral(fopt, TRUE, <<>>, BufSlice(buf, cur))
    /\ fpc' = "done"
    /\ UNCHANGED <<self_v, fopt, n, buf, cur, written, iters, pc, mainVars, benchVars>>

NextFmt == FmtEnter \/ FmtLoop \/ FmtEmit

SpecFmt == InitFmt /\ [][NextFmt]_vars

----------------------------------------------------------------------------
(* Properties of the converter, under SpecFmt *)

\* the number of decimal digits of v, by comparison with the powers of ten
NumDigits(v) == 1 + Cardinality({k \in 1..19 : ~Less(v, Pow10(k).v)})

Returned == fpc \in {"emit", "done"}

\* C1: for every value and every Formatter option, what SimpleDisplay emits is
\* what the baseline emits, the digit run buf[cur..] is the baseline's digit
\* run, and read as a decimal number it is v.
InvC1 ==
    /\ Returned =>
          /\ BufSlice(buf, cur) = StdDigits(self_v)
          /\ DecimalValue(BufSlice(buf, cur)) = [v |-> self_v, overflow |-> FALSE]
    /\ fpc = "done" => out = StdDisplay(fopt, self_v)

WitC1 ==
    /\ fpc = "done"
    /\ self_v = U64Max
    /\ fopt.width = 22
    /\ Len(out) = 22
    /\ out = StdDisplay(fopt, self_v)

\* C2: every byte of buf[cur..] handed to from_utf8_unchecked was stored by
\* the loop and is one of '0'..'9'; every byte the loop stored is one.
InvC2 ==
    /\ \A i \in written : IsDigitByte(buf[i + 1])
    /\ Returned =>
          \A i \in cur..(BufLen - 1) : i \in written /\ IsDigitByte(buf[i + 1])

WitC2 ==
    /\ fpc = "done"
    /\ self_v = U64Max
    /\ written = 0..19
    /\ \A i \in 1..20 : IsDigitByte(buf[i])

\* C3: the digit run starts with '0' only for v = 0, whose run is "0"; so
\* does the text rendered with "{}".
InvC3 ==
    /\ Returned =>
          /\ cur < BufLen
          /\ (buf[cur + 1] = Ch0) <=> (self_v = Zero)
          /\ self_v = Zero => BufSlice(buf, cur) = <<Ch0>>
    /\ fpc = "done" /\ fopt = Plain =>
          /\ out # <<>>
          /\ (out[1] = Ch0) <=> (self_v = Zero)

WitC3 ==
    /\ fpc = "done"
    /\ fopt = Plain
    /\ self_v = Pow10(19).v
    /\ out = <<Ch0 + 1>> \o Fill(19, Ch0)

\* C9: the loop block is evaluated at least once and at most 20 times, the
\* cursor is 20 less the evaluations so far and never below 0, no evaluation
\* panics, and the loop leaves the cursor at 20 less the number of digits of v.
InvC9 ==
    /\ fpc # "panic"
    /\ cur >= 0
    /\ iters <= 20
    /\ fpc = "loop" => cur = 20 - iters /\ iters < 20
    /\ Returned =>
          /\ iters >= 1
          /\ cur = 20 - iters
          /\ cur = 20 - NumDigits(self_v)
          /\ self_v = U64Max => cur = 0

WitC9 ==
    /\ fpc = "emit"
    /\ self_v = U64Max
    /\ iters = 20
    /\ cur = 0

----------------------------------------------------------------------------
(* stats *)

\* BENCH_SIZE and BENCH_ITER, scaled down from 1_000_000 and 100 (lines 11, 12)
BENCH_SIZE == 2
BENCH_ITER == 2

RECURSIVE SeqSum(_)
SeqSum(vs) == IF vs = <<>> THEN 0 ELSE vs[1] + SeqSum(Tail(vs))

SeqMin(vs) == CHOOSE x \in {vs[i] : i \in DOMAIN vs} : \A i \in DOMAIN vs : x <= vs[i]
SeqMax(vs) == CHOOSE x \in {vs[i] : i \in DOMAIN vs} : \A i \in DOMAIN vs : x >= vs[i]

\* the divisor of line 140
AvgDivisor(vs) == BENCH_ITER

\* stats(vs) for a non-empty vs.  Durations are whole ticks and the f64
\* quotient of line 140 is kept exact, as the fraction num / den.
Stats(vs) ==
    [min |-> SeqMin(vs),
     max |-> SeqMax(vs),
     avg |-> [num |-> SeqSum(vs), den |-> AvgDivisor(vs)]]

\* x <= num/den and num/den <= x for a fraction with den > 0
LeqFrac(x, q) == x * q.den <= q.num
FracLeq(q, x) == q.num <= x * q.den

----------------------------------------------------------------------------
(* main and bench_for_digits *)

\* seed_str.parse::<u64>(): an optional '+', then decimal digits, each step
\* checked for overflow
RECURSIVE ParseDigits(_)
ParseDigits(str) ==
    IF str = <<>> THEN [ok |-> TRUE, v |-> Zero]
    ELSE LET h == ParseDigits(SubSeq(str, 1, Len(str) - 1))
             c == str[Len(str)]
         IN  IF ~h.ok \/ ~IsDigitByte(c)
             THEN [ok |-> FALSE, v |-> Zero]
             ELSE LET m == MulAddSmall(h.v, 10, c - Ch0)
                  IN  [ok |-> ~m.overflow, v |-> m.v]

ParseU64(str) ==
    IF str = <<>> THEN [ok |-> FALSE, v |-> Zero]
    ELSE IF str[1] \in {43, 45} /\ Len(str) = 1 THEN [ok |-> FALSE, v |-> Zero]
    ELSE IF str[1] = 43 THEN ParseDigits(Tail(str))
    ELSE ParseDigits(str)

\* the seed arguments tried: none, "+7", "18446744073709551615" and, not
\* parsable, "", "+", "-1", "4x", "18446744073709551616"
SeedArgs ==
    {None, Some(<<43, 55>>), Some(StdDigits(U64Max)),
     Some(<<>>), Some(<<43>>), Some(<<45, 49>>), Some(<<52, 120>>),
     Some(SubSeq(StdDigits(U64Max), 1, 19) \o <<54>>)}

\* the header and a data row of the table on stdout; a row is kept by its
\* first column, the digit-length class
HeaderLine == <<"header", 0>>
DataRow(d) == <<"row", d>>

\* elapsed times, in ticks, that start.elapsed() may report
Durations == {1, 2}

\* values rng.gen_range(low, high) may return: the ends of [low, high) and a
\* value of mixed digits inside it
RangeSamples(low, high) ==
    {x \in {low, SubSmall(high, 1).v, MulAddSmall(low, 7, 3).v} :
        ~Less(x, low) /\ Less(x, high)}

Comma == 44

\* the bytes the loops of lines 61-63 and 68-70 append to w_simple and w_std
RECURSIVE SimpleBatch(_)
SimpleBatch(vals) ==
    IF vals = <<>> THEN <<>>
    ELSE SimpleDisplay(Plain, vals[1]) \o <<Comma>> \o SimpleBatch(Tail(vals))

RECURSIVE StdBatch(_)
StdBatch(vals) ==
    IF vals = <<>> THEN <<>>
    ELSE StdDisplay(Plain, vals[1]) \o <<Comma>> \o StdBatch(Tail(vals))

\* a variant of PushTime that keeps only the last measurement
PushTimeOverwrite(ts, t) == <<t>>

\* simple_times.push(t), std_times.push(t)
PushTime(ts, t) == Append(ts, t)

Init ==
    /\ pc = "main"
    /\ overflow_checks \in BOOLEAN
    /\ seed_arg \in SeedArgs
    /\ rng = "none"
    /\ stdout = <<>>
    /\ calls = 0
    /\ digits = 0
    /\ value_min = Zero
    /\ iter = 0
    /\ values = <<>>
    /\ w_simple = <<>>
    /\ w_std = <<>>
    /\ simple_times = <<>>
    /\ std_times = <<>>
    /\ simple_stats = NoStats
    /\ std_stats = NoStats
    /\ FmtIdle

\* a variant of MainParseSeed that prints the header before it parses the seed
MainParseSeedHeaderFirst ==
    /\ pc = "main"
    /\ stdout' = Append(stdout, HeaderLine)
    /\ IF ~seed_arg.some
       THEN rng' = "entropy" /\ pc' = "header"
       ELSE IF ParseU64(seed_arg.str).ok
       THEN rng' = "seeded" /\ pc' = "header"
       ELSE rng' = rng /\ pc' = "exit_err"
    /\ UNCHANGED <<overflow_checks, seed_arg, calls, digits, benchVars, fmtVars>>

\* lines 25-30: the ? of line 26 returns the error from main
MainParseSeed ==
    /\ pc = "main"
    /\ IF ~seed_arg.some
       THEN rng' = "entropy" /\ pc' = "header"
       ELSE IF ParseU64(seed_arg.str).ok
       THEN rng' = "seeded" /\ pc' = "header"
       ELSE rng' = rng /\ pc' = "exit_err"
    /\ UNCHANGED <<overflow_checks, seed_arg, stdout, calls, digits, benchVars, fmtVars>>

\* line 32, and the start of the range 1..20
MainHeader ==
    /\ pc = "header"
    /\ stdout' = Append(stdout, HeaderLine)
    /\ digits' = 1
    /\ pc' = "loop"
    /\ UNCHANGED <<overflow_checks, seed_arg, rng, calls, benchVars, fmtVars>>

\* lines 33-37: for digits in 1..20, the call of line 34 or Ok(())
MainLoop ==
    /\ pc = "loop"
    /\ IF digits < 20
       THEN pc' = "bench" /\ calls' = calls + 1
       ELSE pc' = "done" /\ calls' = calls
    /\ UNCHANGED <<overflow_checks, seed_arg, rng, stdout, digits, benchVars, fmtVars>>

\* line 35: bench_for_digits has returned, the range's next value
MainLoopNext ==
    /\ pc = "ret"
    /\ digits' = digits + 1
    /\ pc' = "loop"
    /\ UNCHANGED <<overflow_checks, seed_arg, rng, stdout, calls, benchVars, fmtVars>>

\* value_min * 10 as lines 47 and 56 compute it
ValueHigh(lo) == MulAddSmall(lo, 10, 0)

\* lines 41-51, when no arithmetic of lines 41 and 47 panics
BenchEntry ==
    /\ pc = "bench"
    /\ LET p == Pow10(digits - 1)
       IN  /\ ~(overflow_checks /\ (p.overflow \/ ValueHigh(p.v).overflow))
           /\ value_min' = p.v
    /\ simple_times' = <<>>
    /\ std_times' = <<>>
    /\ iter' = 0
    /\ pc' = "iter"
    /\ UNCHANGED <<mainVars, values, w_simple, w_std, simple_stats, std_stats, fmtVars>>

\* lines 41-47 in a build with overflow checks, when 10u64.pow(digits - 1) or
\* value_min * 10 overflows: the process panics
BenchEntryOverflow ==
    /\ pc = "bench"
    /\ overflow_checks
    /\ LET p == Pow10(digits - 1)
       IN  p.overflow \/ ValueHigh(p.v).overflow
    /\ pc' = "panicked"
    /\ UNCHANGED <<mainVars, benchVars, fmtVars>>

\* line 53
BenchIterHead ==
    /\ pc = "iter"
    /\ pc' = IF iter < BENCH_ITER THEN "gen" ELSE "stats"
    /\ UNCHANGED <<mainVars, benchVars, fmtVars>>

\* lines 54-57: gen_range requires low < high
BenchGenerate ==
    /\ pc = "gen"
    /\ Less(value_min, ValueHigh(value_min).v)
    /\ values' \in [1..BENCH_SIZE -> RangeSamples(value_min, ValueHigh(value_min).v)]
    /\ pc' = "conv_simple"
    /\ UNCHANGED <<mainVars, value_min, iter, w_simple, w_std, simple_times,
                   std_times, simple_stats, std_stats, fmtVars>>

\* line 56 when value_min * 10 has wrapped below value_min: gen_range panics
BenchGeneratePanic ==
    /\ pc = "gen"
    /\ ~Less(value_min, ValueHigh(value_min).v)
    /\ pc' = "panicked"
    /\ UNCHANGED <<mainVars, benchVars, fmtVars>>

\* lines 59-64
BenchConvSimple ==
    /\ pc = "conv_simple"
    /\ w_simple' = SimpleBatch(values)
    /\ \E t \in Durations : simple_times' = PushTime(simple_times, t)
    /\ pc' = "conv_std"
    /\ UNCHANGED <<mainVars, value_min, iter, values, w_std, std_times,
                   simple_stats, std_stats, fmtVars>>

\* lines 66-71
BenchConvStd ==
    /\ pc = "conv_std"
    /\ w_std' = StdBatch(values)
    /\ \E t \in Durations : std_times' = PushTime(std_times, t)
    /\ pc' = "assert"
    /\ UNCHANGED <<mainVars, value_min, iter, values, w_simple, simple_times,
                   simple_stats, std_stats, fmtVars>>

\* line 73 when the buffers are equal; the iteration's locals are dropped
BenchAssert ==
    /\ pc = "assert"
    /\ w_simple = w_std
    /\ iter' = iter + 1
    /\ values' = <<>>
    /\ w_simple' = <<>>
    /\ w_std' = <<>>
    /\ pc' = "iter"
    /\ UNCHANGED <<mainVars, value_min, simple_times, std_times, simple_stats,
                   std_stats, fmtVars>>

\* lines 76-77
BenchStats ==
    /\ pc = "stats"
    /\ simple_stats' = Stats(simple_times)
    /\ std_stats' = Stats(std_times)
    /\ pc' = "report"
    /\ UNCHANGED <<mainVars, value_min, iter, values, w_simple, w_std,
                   simple_times, std_times, fmtVars>>

\* lines 79-98: the row is printed and the function's locals are dropped
BenchReport ==
    /\ pc = "report"
    /\ stdout' = Append(stdout, DataRow(digits))
    /\ value_min' = Zero
    /\ iter' = 0
    /\ simple_times' = <<>>
    /\ std_times' = <<>>
    /\ simple_stats' = NoStats
    /\ std_stats' = NoStats
    /\ pc' = "ret"
    /\ UNCHANGED <<overflow_checks, seed_arg, rng, calls, digits, values, w_simple,
                   w_std, fmtVars>>

BenchNext ==
    \/ BenchEntry
    \/ BenchIterHead
    \/ BenchGenerate
    \/ BenchConvSimple
    \/ BenchConvStd
    \/ BenchAssert
    \/ BenchStats
    \/ BenchReport

Next ==
    \/ MainParseSeed
    \/ MainHeader
    \/ MainLoop
    \/ MainLoopNext
    \/ BenchNext

\* the program as main runs it
Spec == Init /\ [][Next]_vars

----------------------------------------------------------------------------
(* bench_for_digits called with any digit-length class *)

InitBench ==
    /\ pc = "bench"
    /\ overflow_checks \in BOOLEAN
    /\ seed_arg = None
    /\ rng = "entropy"
    /\ stdout = <<>>
    /\ calls = 1
    /\ digits \in 1..20
    /\ value_min = Zero
    /\ iter = 0
    /\ values = <<>>
    /\ w_simple = <<>>
    /\ w_std = <<>>
    /\ simple_times = <<>>
    /\ std_times = <<>>
    /\ simple_stats = NoStats
    /\ std_stats = NoStats
    /\ FmtIdle

NextBench ==
    \/ BenchNext
    \/ BenchEntryOverflow
    \/ BenchGeneratePanic

SpecBench == InitBench /\ [][NextBench]_vars

----------------------------------------------------------------------------
(* The harness with a formatter that can write a wrong byte: the only way  *)
(* for the comparison of line 73 to fail                                   *)

\* a buffer that differs from w in its first byte
Corrupt(w) == [w EXCEPT ![1] = IF w[1] = Ch0 THEN Ch0 + 1 ELSE Ch0]

\* lines 66-71 with a wrong byte written to w_std
BenchConvStdFault ==
    /\ pc = "conv_std"
    /\ w_std' = Corrupt(StdBatch(values))
    /\ \E t \in Durations : std_times' = PushTime(std_times, t)
    /\ pc' = "assert"
    /\ UNCHANGED <<mainVars, value_min, iter, values, w_simple, simple_times,
                   simple_stats, std_stats, fmtVars>>

\* a variant of BenchAssertFail that goes on with the next iteration
BenchAssertFailContinue ==
    /\ pc = "assert"
    /\ w_simple # w_std
    /\ iter' = iter + 1
    /\ values' = <<>>
    /\ w_simple' = <<>>
    /\ w_std' = <<>>
    /\ pc' = "iter"
    /\ UNCHANGED <<mainVars, value_min, simple_times, std_times, simple_stats,
                   std_stats, fmtVars>>

\* line 73 when the buffers differ: assert_eq! panics
BenchAssertFail ==
    /\ pc = "assert"
    /\ w_simple # w_std
    /\ pc' = "panicked"
    /\ UNCHANGED <<mainVars, benchVars, fmtVars>>

NextFault ==
    \/ Next
    \/ BenchConvStdFault
    \/ BenchAssertFail

SpecFault == Init /\ [][NextFault]_vars

----------------------------------------------------------------------------
(* stats called with any non-empty sample set *)

StatTimes == {1, 2, 3, 5}

StatInputs == UNION {[1..k -> StatTimes] : k \in 1..(BENCH_ITER + 1)}

InitStats ==
    /\ pc = "stats_call"
    /\ overflow_checks = FALSE
    /\ seed_arg = None
    /\ rng = "none"
    /\ stdout = <<>>
    /\ calls = 0
    /\ digits = 0
    /\ value_min = Zero
    /\ iter = 0
    /\ values = <<>>
    /\ w_simple = <<>>
    /\ w_std = <<>>
    /\ simple_times \in StatInputs
    /\ std_times = <<>>
    /\ simple_stats = NoStats
    /\ std_stats = NoStats
    /\ FmtIdle

\* lines 128-142, called with simple_times
StatsCall ==
    /\ pc = "stats_call"
    /\ simple_stats' = Stats(simple_times)
    /\ pc' = "stats_ret"
    /\ UNCHANGED <<mainVars, value_min, iter, values, w_simple, w_std,
                   simple_times, std_times, std_stats, fmtVars>>

NextStats == StatsCall

SpecStats == InitStats /\ [][NextStats]_vars

----------------------------------------------------------------------------
(* Properties of the harness *)

InBench == pc \in {"iter", "gen", "conv_simple", "conv_std", "assert", "stats", "report"}

\* C4: for every class d in 1..20, bench_for_digits(d) computes its bounds
\* without overflow (no panic, no wrapped bound) and samples every value from
\* 10^(d-1) up to 10^d exclusive (d < 20) or 2^64 - 1 inclusive (d = 20), so
\* that every generated value has exactly d digits.
InvC4 ==
    /\ pc # "panicked"
    /\ InBench =>
          /\ value_min = Pow10(digits - 1).v
          /\ digits < 20 => ValueHigh(value_min) = [v |-> Pow10(digits).v, overflow |-> FALSE]
          /\ digits = 20 => ~ValueHigh(value_min).overflow
    /\ \A i \in DOMAIN values :
          /\ NumDigits(values[i]) = digits
          /\ Len(StdDigits(values[i])) = digits
          /\ ~Less(values[i], Pow10(digits - 1).v)
          /\ digits < 20 => Less(values[i], Pow10(digits).v)

\* a table of the header, then a row per class 1..last
ExpectedTable(last) == <<HeaderLine>> \o [d \in 1..last |-> DataRow(d)]

\* C5: when no check fails, the harness handles the classes 1 to 20 in
\* ascending order, once each, and prints one row per class after the header.
InvC5 ==
    /\ stdout = SubSeq(ExpectedTable(20), 1, Len(stdout))
    /\ pc = "done" => stdout = ExpectedTable(20) /\ calls = 20

\* the state after the panic of line 73
PanickedState ==
    pc = "panicked" =>
        /\ simple_stats = NoStats /\ std_stats = NoStats
        /\ iter < BENCH_ITER
        /\ Len(simple_times) = iter + 1
        /\ stdout = ExpectedTable(digits - 1)

\* a step from a failed comparison, and a step from the panicked state
PanicStep ==
    /\ (pc = "assert" /\ w_simple # w_std) =>
          (pc' = "panicked" /\ UNCHANGED <<mainVars, benchVars>>)
    /\ pc = "panicked" => UNCHANGED vars

\* C6: when the buffers of an iteration differ the process panics at that
\* iteration: the step from the failed comparison changes nothing but the
\* position, no step follows it, and in the panicked state no statistics of
\* the class exist, the class's iterations are not complete and stdout holds
\* the header and the rows of the earlier classes only.
PropC6 == [](PanickedState) /\ [][PanicStep]_vars

WitC6 ==
    /\ pc = "panicked"
    /\ w_simple # w_std
    /\ digits = 3
    /\ iter = 1
    /\ Len(stdout) = 3

\* C7: with a seed argument that does not parse, main returns the error
\* before the header is printed and before bench_for_digits is called.
BadSeed == seed_arg.some /\ ~ParseU64(seed_arg.str).ok

InvC7 ==
    /\ BadSeed =>
          /\ pc \in {"main", "exit_err"}
          /\ stdout = <<>>
          /\ calls = 0
    /\ pc = "exit_err" => BadSeed

WitC7 ==
    /\ pc = "exit_err"
    /\ seed_arg = Some(<<52, 120>>)
    /\ stdout = <<>>

InvC10 ==
    /\ pc \in {"iter", "gen", "conv_simple"} =>
          Len(simple_times) = iter /\ Len(std_times) = iter
    /\ pc = "conv_std" =>
          Len(simple_times) = iter + 1 /\ Len(std_times) = iter
    /\ pc = "assert" =>
          /\ Len(simple_times) = iter + 1 /\ Len(std_times) = iter + 1
          /\ w_simple = SimpleBatch(values)
          /\ w_std = StdBatch(values)
    /\ pc \in {"conv_simple", "conv_std", "assert"} =>
          Len(values) = BENCH_SIZE /\ iter < BENCH_ITER
    /\ pc \in {"iter", "gen"} => values = <<>>
    /\ pc = "stats" =>
          /\ iter = BENCH_ITER
          /\ Len(simple_times) = BENCH_ITER
          /\ Len(std_times) = BENCH_ITER
          /\ AvgDivisor(simple_times) = Len(simple_times)
          /\ AvgDivisor(std_times) = Len(std_times)

WitC10 ==
    /\ pc = "stats"
    /\ digits = 19
    /\ Len(simple_times) = BENCH_ITER
    /\ Len(std_times) = BENCH_ITER
    /\ simple_times # std_times

============================================================================
